---------------------------- MODULE Spec2Model ----------------------------
(***************************************************************************)
(* A model of Source/Engine/Platform/Base/StringUtilsBase.cpp:             *)
(*   StringUtils::ToString (int32, int64, uint32, uint64),                 *)
(*   StringUtils::ConvertUTF82UTF16, StringUtils::FindIgnoreCase,          *)
(*   StringUtils::Parse (float), StringUtils::PathRemoveRelativeParts and  *)
(*   StringUtils::GetFileName.                                             *)
(*                                                                         *)
(* Characters and code units are their numeric codes.  A C string is the   *)
(* sequence of its units before the terminating 0.  Machine integers of    *)
(* 32 and 64 bits are little-endian sequences of 16-bit limbs (2 and 4     *)
(* limbs), two's complement, so that the arithmetic keeps its width.       *)
(***************************************************************************)
EXTENDS Integers, Sequences, FiniteSets

VARIABLES
    pc,         \* position in the running function
    \* ---- ToString
    ty,         \* overload: "int32", "int64", "uint32", "uint64"
    n,          \* the argument, as passed
    value,      \* the parameter `value`, updated by the loop
    div,        \* the local `div`
    it,         \* the write cursor `it`, as an index relative to &buf[0]
    buf,        \* the bytes at &buf[BufLo] .. &buf[SIZE-1]; indices < 0 lie below the array
    lowest,     \* lowest index written so far (SIZE before the first write)
    valueAt,    \* where the frame keeps the parameter `value`: the index of its first byte
    below,      \* what the bytes below &buf[0] read back as when the String is built
    ret,        \* the returned String
    trapped,    \* the call ended in a trap instead of returning
    \* ---- ConvertUTF82UTF16
    from,       \* the bytes from[0 .. fromLength-1]
    to0,        \* the contents of the output buffer `to` at the call
    to,         \* the output buffer `to`
    toLength,   \* *toLength
    unicode,    \* the local Array<unsigned long> unicode
    heap,       \* the words that lie after the elements of `unicode`
    i,          \* the local `i`
    length,     \* the local `length`
    failed,     \* "Not a UTF-8 string." was logged and the function returned early
    \* ---- FindIgnoreCase
    wide,       \* TRUE: the Char (16-bit) overload, FALSE: the char (8-bit) overload
    str,        \* the string `str` points into, or Null
    toFind,     \* the string `toFind` points into, or Null
    findInitial,\* the local `findInitial`
    len,        \* the local `length`
    sp,         \* how far the pointer `str` has been advanced
    strChar,    \* the local `strChar`
    found,      \* the returned pointer, as an index into `str`, or NotFound
    \* ---- Parse (float)
    text,       \* the string `str` of Parse
    v,          \* the local `v`
    result,     \* *result
    returned,   \* the value Parse returned
    \* ---- PathRemoveRelativeParts
    path0,      \* `path` at the call
    path,       \* the String `path`
    components, \* the local Array<String> components
    stack,      \* the local Array<String> stack
    bitAt,      \* the position of `bit` in components
    \* ---- GetFileName
    fpath0,     \* `path` at the call
    fpath,      \* the String `path`
    num,        \* the local `num`
    chr,        \* the local `chr`
    fileName    \* the returned String

tsVars == <<ty, n, value, div, it, buf, lowest, valueAt, below, ret>>

utfVars == <<from, to0, to, toLength, unicode, heap, i, length, failed>>

findVars == <<wide, str, toFind, findInitial, len, sp, strChar, found>>

parseVars == <<text, v, result, returned>>

pathVars == <<path0, path, components, stack, bitAt>>

nameVars == <<fpath0, fpath, num, chr, fileName>>

vars == <<pc, trapped, tsVars, utfVars, findVars, parseVars, pathVars, nameVars>>

\* the variables of the functions that are not running
NotToString == <<utfVars, findVars, parseVars, pathVars, nameVars>>

NotConvert == <<tsVars, findVars, parseVars, pathVars, nameVars>>

NotFind == <<trapped, tsVars, utfVars, parseVars, pathVars, nameVars>>

NotParse == <<trapped, tsVars, utfVars, findVars, pathVars, nameVars>>

NotPath == <<trapped, tsVars, utfVars, findVars, parseVars, nameVars>>

NotName == <<trapped, tsVars, utfVars, findVars, parseVars, pathVars>>

\* A float: cls "num" for the number (-1)^neg * mant * 2^exp2, with
\* 2^23 <= mant < 2^24 (exp2 >= -149), or mant < 2^23 and exp2 = -149 (a
\* subnormal), or mant = 0 and exp2 = 0 (a zero); "inf" for an infinity,
\* "nan" for a NaN.
Float(neg, mant, exp2) ==
    [cls |-> "num", neg |-> neg, mant |-> mant, exp2 |-> IF mant = 0 THEN 0 ELSE exp2]

Infinity(neg) == [cls |-> "inf", neg |-> neg, mant |-> 1, exp2 |-> 0]

NaN(neg) == [cls |-> "nan", neg |-> neg, mant |-> 1, exp2 |-> 0]

\* x == 0 (true of both zeros, of no NaN)
FloatIsZero(x) == x.cls = "num" /\ x.mant = 0

ToStringIdle ==
    /\ ty = "int32" /\ n = <<0, 0>> /\ value = <<0, 0>> /\ div = <<0, 0>>
    /\ it = 0 /\ buf = <<>> /\ lowest = 0 /\ valueAt = 0 /\ below = <<>> /\ ret = <<>>

ConvertIdle ==
    /\ from = <<>> /\ to0 = <<>> /\ to = <<>> /\ toLength = 0
    /\ unicode = <<>> /\ heap = <<>> /\ i = 0 /\ length = 0 /\ failed = FALSE

FindIdle ==
    /\ wide = FALSE /\ str = <<>> /\ toFind = <<>> /\ findInitial = 0
    /\ len = 0 /\ sp = 0 /\ strChar = 0 /\ found = 0

ParseIdle ==
    /\ text = <<>> /\ v = Float(FALSE, 0, 0) /\ result = Float(FALSE, 0, 0)
    /\ returned = FALSE

PathIdle ==
    /\ path0 = <<>> /\ path = <<>> /\ components = <<>> /\ stack = <<>> /\ bitAt = 0

NameIdle ==
    /\ fpath0 = <<>> /\ fpath = <<>> /\ num = 0 /\ chr = 0 /\ fileName = <<>>

(***************************************************************************)
(* Machine words.                                                          *)
(***************************************************************************)
LimbBase == 2^16
LimbHalf == 2^15

Zero(L) == [k \in 1..L |-> 0]

Small(c, L) == [k \in 1..L |-> IF k = 1 THEN c ELSE 0]

IsZero(x) == \A k \in 1..Len(x) : x[k] = 0

\* the sign bit of a two's complement word
IsNegative(x) == x[Len(x)] >= LimbHalf

\* x + y modulo 2^(16 * Len(x))
Add(x, y) ==
    LET carry[k \in 0..Len(x)] ==
            IF k = 0 THEN 0 ELSE (x[k] + y[k] + carry[k-1]) \div LimbBase
    IN  [k \in 1..Len(x) |-> (x[k] + y[k] + carry[k-1]) % LimbBase]

\* -x modulo 2^(16 * Len(x))
Neg(x) == Add([k \in 1..Len(x) |-> LimbBase - 1 - x[k]], Small(1, Len(x)))

\* x - y modulo 2^(16 * Len(x))
Sub(x, y) == Add(x, Neg(y))

\* x * m modulo 2^(16 * Len(x)), for 0 <= m < 2^15
MulSmall(x, m) ==
    LET carry[k \in 0..Len(x)] ==
            IF k = 0 THEN 0 ELSE (x[k] * m + carry[k-1]) \div LimbBase
    IN  [k \in 1..Len(x) |-> (x[k] * m + carry[k-1]) % LimbBase]

\* the unsigned quotient x / d, for 0 < d < 2^15
UDivSmall(x, d) ==
    LET rem[k \in 1..(Len(x)+1)] ==
            IF k = Len(x) + 1 THEN 0 ELSE (rem[k+1] * LimbBase + x[k]) % d
    IN  [k \in 1..Len(x) |-> (rem[k+1] * LimbBase + x[k]) \div d]

\* the signed quotient x / d of C (truncated toward zero), for 0 < d < 2^15
SDivSmall(x, d) ==
    IF IsNegative(x) THEN Neg(UDivSmall(Neg(x), d)) ELSE UDivSmall(x, d)

\* the value of a word that is known to lie in -(2^15-1) .. 2^15-1
AsInt(x) ==
    CASE (\A k \in 2..Len(x) : x[k] = 0) /\ x[1] < LimbHalf -> x[1]
      [] (\A k \in 2..Len(Neg(x)) : Neg(x)[k] = 0) /\ Neg(x)[1] < LimbHalf
           -> 0 - Neg(x)[1]

\* unsigned x < c, for 0 < c < 2^15
ULess(x, c) == (\A k \in 2..Len(x) : x[k] = 0) /\ x[1] < c

\* signed x <= -c, for 0 < c < 2^15
SLeqMinus(x, c) == IsNegative(x) /\ ~ULess(Neg(x), c)

(***************************************************************************)
(* ToString.                                                               *)
(***************************************************************************)
digit_pairs ==
    << 48, 48, 48, 49, 48, 50, 48, 51, 48, 52, 48, 53, 48, 54, 48, 55, 48, 56, 48, 57,
       49, 48, 49, 49, 49, 50, 49, 51, 49, 52, 49, 53, 49, 54, 49, 55, 49, 56, 49, 57,
       50, 48, 50, 49, 50, 50, 50, 51, 50, 52, 50, 53, 50, 54, 50, 55, 50, 56, 50, 57,
       51, 48, 51, 49, 51, 50, 51, 51, 51, 52, 51, 53, 51, 54, 51, 55, 51, 56, 51, 57,
       52, 48, 52, 49, 52, 50, 52, 51, 52, 52, 52, 53, 52, 54, 52, 55, 52, 56, 52, 57,
       53, 48, 53, 49, 53, 50, 53, 51, 53, 52, 53, 53, 53, 54, 53, 55, 53, 56, 53, 57,
       54, 48, 54, 49, 54, 50, 54, 51, 54, 52, 54, 53, 54, 54, 54, 55, 54, 56, 54, 57,
       55, 48, 55, 49, 55, 50, 55, 51, 55, 52, 55, 53, 55, 54, 55, 55, 55, 56, 55, 57,
       56, 48, 56, 49, 56, 50, 56, 51, 56, 52, 56, 53, 56, 54, 56, 55, 56, 56, 56, 57,
       57, 48, 57, 49, 57, 50, 57, 51, 57, 52, 57, 53, 57, 54, 57, 55, 57, 56, 57, 57 >>

STRING_UTILS_ITOSTR_BUFFER_SIZE == 15

\* The memory modelled with the array starts nine bytes below &buf[0]: the
\* stores reach down to &buf[-6] (the sign of a 64-bit value, after five
\* digit pairs below the array), and a `value` kept in the frame under the
\* array lies at &buf[-8] or &buf[-9].
BufLo == 0 - 9

Types == {"int32", "int64", "uint32", "uint64"}

IsSigned(t) == t \in {"int32", "int64"}

Limbs(t) == IF t \in {"int32", "uint32"} THEN 2 ELSE 4

\* The arguments tried.  32 bits: every word whose limbs come from
\* LimbSamples.  64 bits: every such word below 2^48, the powers of ten from
\* 10^13 on (the first text that no longer fits the array has 15 digits) and
\* the values just under them, the words 2^63, 2^63 - 1 and 2^64 - 1; for the
\* signed overload the negatives of the words below 2^48, of the powers of
\* ten and of the values just under them; for the unsigned one 10^19.
LimbSamples == {0, 1, 10, 100, LimbHalf, LimbBase - 1}

RECURSIVE Pow10(_)
Pow10(k) == IF k = 0 THEN Small(1, 4) ELSE MulSmall(Pow10(k - 1), 10)

Values(t) ==
    IF Limbs(t) = 2 THEN [1..2 -> LimbSamples]
    ELSE LET low == { x \o <<0>> : x \in [1..3 -> LimbSamples] }
             tens == { Pow10(k) : k \in 13..18 }
             plain == low \cup tens \cup { Sub(x, Small(1, 4)) : x \in tens }
         IN  plain
             \cup { <<0, 0, 0, LimbHalf>>,
                    <<LimbBase - 1, LimbBase - 1, LimbBase - 1, LimbHalf - 1>>,
                    <<LimbBase - 1, LimbBase - 1, LimbBase - 1, LimbBase - 1>> }
             \cup (IF IsSigned(t) THEN { Neg(x) : x \in plain } ELSE { Pow10(19) })

\* value / 100: signed division in the signed overloads, unsigned division
\* (its result then stored in the signed `div`, same bits) in the others
Div100(t, x) == IF IsSigned(t) THEN SDivSmall(x, 100) ELSE UDivSmall(x, 100)

\* value - div * 100, in the width of the overload, with the product taken
\* modulo 2^w.  In the signed overloads the product never leaves the signed
\* range.  In the unsigned overloads `div` is signed and the product exceeds
\* the signed range for values above the signed maximum (Overflows100):
\* this is what a build that wraps leaves, and the difference, converted to
\* unsigned, is then value % 100.
Rem100(x, d) == Sub(x, MulSmall(d, 100))

\* d * 100 is not a value of the signed type of d, for d >= 0
Overflows100(d) ==
    LET product == MulSmall(d \o <<0>>, 100)
    IN  product[Len(d) + 1] # 0 \/ product[Len(d)] >= LimbHalf

\* One byte stored at index at (an index below 0 lies below &buf[0]).
Store(b, at, ch) == [b EXCEPT ![at] = ch]

\* Platform::MemoryCopy(it, &digit_pairs[idx], 2)
MemoryCopy(b, at, idx) ==
    Store(Store(b, at, digit_pairs[idx + 1]), at + 1, digit_pairs[idx + 2])

\* What lies below &buf[0] is the build's choice.  The 64-bit parameter
\* `value` is kept in a register (or in memory the stores do not reach), or
\* in the eight bytes of the frame from &buf[valueAt] on: directly under the
\* array, or under one byte of padding.  In the 32-bit overloads no store
\* leaves the array, and one frame stands for all.
Elsewhere == STRING_UTILS_ITOSTR_BUFFER_SIZE

Frames(t) == IF Limbs(t) = 2 THEN { Elsewhere } ELSE { Elsewhere, 0 - 8, 0 - 9 }

\* byte j (0 .. 7, little-endian) of the word x
ByteOf(x, j) ==
    IF j % 2 = 0 THEN x[(j \div 2) + 1] % 256 ELSE x[(j \div 2) + 1] \div 256

\* the memory after `value = x`
Spill(b, x) ==
    IF valueAt = Elsewhere THEN b
    ELSE [k \in DOMAIN b |->
             IF k >= valueAt /\ k < valueAt + 8 THEN ByteOf(x, k - valueAt) ELSE b[k]]

\* `value` as read after the stores that gave the memory b: x itself, or the
\* eight bytes of b where the frame keeps it
Reload(b, x) ==
    IF valueAt = Elsewhere THEN x
    ELSE [m \in 1..4 |-> b[valueAt + 2 * (m - 1)] + 256 * b[valueAt + 2 * (m - 1) + 1]]

\* A byte below &buf[0] may be displaced before the String is built: the
\* call that builds it pushes its return address under the stack pointer.
\* A memory says, for each index under 0, what is found there: Kept, the
\* byte that the function left, or the byte (0 .. 255) that took its place.
Kept == 0 - 1

ReadBack(b, mem, at) == IF at >= 0 \/ mem[at] = Kept THEN b[at] ELSE mem[at]

\* The text String(at, &buf[SIZE] - at) is built from.
RECURSIVE ReadFrom(_, _, _)
ReadFrom(b, mem, at) ==
    IF at >= STRING_UTILS_ITOSTR_BUFFER_SIZE THEN <<>>
    ELSE <<ReadBack(b, mem, at)>> \o ReadFrom(b, mem, at + 1)

\* every byte as the function left it
BelowKept == [k \in BufLo..(0 - 1) |-> Kept]

\* An address in the eight bytes from &buf[at] on, little-endian.  Its bytes
\* 6 and 7 are zero; b3, b4 and b5 are the bytes 3, 4 and 5; the bytes 0 to 2
\* lie under every text and are not read.
ReturnAddress(at, b3, b4, b5) ==
    [k \in BufLo..(0 - 1) |->
        IF k < at THEN Kept
        ELSE IF k = at + 3 THEN b3
        ELSE IF k = at + 4 THEN b4
        ELSE IF k = at + 5 THEN b5
        ELSE IF k < at + 8 THEN 0
        ELSE Kept]

\* the values of an address byte at index k: any, when the text takes it
AddressByte(k) == IF it <= k THEN 0..255 ELSE {0}

\* byte 5 of an address of code: in a position-dependent program, in a
\* position-independent one, in a shared object
AddressTop(k) == IF it <= k THEN {0, 85, 86, 126, 127} ELSE {0}

\* the images of a return address in the eight bytes from &buf[at] on
AddressesAt(at) ==
    { ReturnAddress(at, b3, b4, b5) :
        b3 \in AddressByte(at + 3), b4 \in AddressByte(at + 4), b5 \in AddressTop(at + 5) }

\* The memories the String may be built from.  With `value` in the frame
\* under the array the bytes are as the function left them.  Otherwise they
\* are as the function left them, or a return address lies directly under
\* the array or under one byte of padding; when the text starts inside the
\* array no byte below it is read, and one memory stands for all.
BelowMemories ==
    IF valueAt = Elsewhere /\ it < 0
    THEN { BelowKept } \cup AddressesAt(0 - 9) \cup AddressesAt(0 - 8)
    ELSE { BelowKept }

Min(a, b) == IF a < b THEN a ELSE b

ToStringBegin ==
    /\ pc = "ToString"
    /\ it' = STRING_UTILS_ITOSTR_BUFFER_SIZE - 2
    /\ div' = Div100(ty, value)
    /\ pc' = IF IsSigned(ty) /\ IsNegative(value) THEN "negative" ELSE "positive"
    /\ UNCHANGED <<ty, n, value, buf, lowest, valueAt, below, ret, trapped, NotToString>>

\* one iteration of `while (div)` in the value >= 0 branch (the whole body of
\* the unsigned overloads).  Where the signed product div * 100 overflows, the
\* build either wraps it or stops the program at the multiplication.
PositiveLoop ==
    /\ pc = "positive"
    /\ ~IsZero(div)
    /\ \/ /\ buf' = Spill(MemoryCopy(buf, it, 2 * AsInt(Rem100(value, div))), div)
          /\ lowest' = Min(lowest, it)
          /\ value' = div
          /\ it' = it - 2
          /\ div' = Div100(ty, div)
          /\ UNCHANGED <<pc, trapped>>
       \/ /\ ~IsSigned(ty)
          /\ Overflows100(div)
          /\ trapped' = TRUE
          /\ pc' = "done"
          /\ UNCHANGED <<value, div, it, buf, lowest>>
    /\ UNCHANGED <<ty, n, valueAt, below, ret, NotToString>>

\* the last pair and `if (value < 10) it++`; the test reads `value` after
\* the store
PositiveTail ==
    /\ pc = "positive"
    /\ IsZero(div)
    /\ buf' = MemoryCopy(buf, it, 2 * AsInt(value))
    /\ lowest' = Min(lowest, it)
    /\ value' = Reload(buf', value)
    /\ it' = IF ULess(value', 10) THEN it + 1 ELSE it
    /\ pc' = "return"
    /\ UNCHANGED <<ty, n, div, valueAt, below, ret, trapped, NotToString>>

\* one iteration of `while (div)` in the value < 0 branch
NegativeLoop ==
    /\ pc = "negative"
    /\ ~IsZero(div)
    /\ buf' = Spill(MemoryCopy(buf, it, (0 - 2) * AsInt(Rem100(value, div))), div)
    /\ lowest' = Min(lowest, it)
    /\ value' = div
    /\ it' = it - 2
    /\ div' = Div100(ty, div)
    /\ UNCHANGED <<pc, ty, n, valueAt, below, ret, trapped, NotToString>>

\* the last pair, `if (value <= -10) it--` and `*it = '-'`; the test reads
\* `value` after the store of the pair
NegativeTail ==
    /\ pc = "negative"
    /\ IsZero(div)
    /\ LET pair == MemoryCopy(buf, it, (0 - 2) * AsInt(value))
       IN  /\ it' = IF SLeqMinus(Reload(pair, value), 10) THEN it - 1 ELSE it
           /\ buf' = Store(pair, it', 45)
    /\ value' = Reload(buf', value)
    /\ lowest' = Min(lowest, it')
    /\ pc' = "return"
    /\ UNCHANGED <<ty, n, div, valueAt, below, ret, trapped, NotToString>>

\* return String(it, &buf[SIZE] - it).  After a store below the array the
\* function may also never return (the frame was damaged, or the build
\* checks its stores); when it returns, the String is built from what the
\* bytes from `it` on read back as.
ToStringReturn ==
    /\ pc = "return"
    /\ \/ /\ lowest < 0
          /\ trapped' = TRUE
          /\ ret' = <<>>
          /\ below' = below
       \/ \E mem \in BelowMemories :
             /\ trapped' = FALSE
             /\ below' = mem
             /\ ret' = ReadFrom(buf, mem, it)
    /\ pc' = "done"
    /\ UNCHANGED <<ty, n, value, div, it, buf, lowest, valueAt, NotToString>>

ToStringInit ==
    /\ pc = "ToString"
    /\ ty \in Types
    /\ n \in Values(ty)
    /\ value = n
    /\ div = Zero(Limbs(ty))
    /\ it = STRING_UTILS_ITOSTR_BUFFER_SIZE
    /\ valueAt \in Frames(ty)
    /\ buf = Spill([k \in BufLo..(STRING_UTILS_ITOSTR_BUFFER_SIZE - 1) |-> 0], n)
    /\ lowest = STRING_UTILS_ITOSTR_BUFFER_SIZE
    /\ below = BelowKept
    /\ ret = <<>>
    /\ trapped = FALSE
    /\ ConvertIdle /\ FindIdle /\ ParseIdle /\ PathIdle /\ NameIdle

ToStringNext ==
    \/ ToStringBegin
    \/ PositiveLoop
    \/ PositiveTail
    \/ NegativeLoop
    \/ NegativeTail
    \/ ToStringReturn

SpecToString == ToStringInit /\ [][ToStringNext]_vars

(***************************************************************************)
(* A conventional base-10 parser (strtoll / strtoull): an optional '-',    *)
(* then digits accumulated as acc * 10 + digit; it stops at the first      *)
(* character that is not a digit.                                          *)
(***************************************************************************)
IsDigit(ch) == ch >= 48 /\ ch <= 57

RECURSIVE ParseDigits(_, _, _)
ParseDigits(s, k, acc) ==
    IF k > Len(s) \/ ~IsDigit(s[k]) THEN acc
    ELSE ParseDigits(s, k + 1,
                     Add(MulSmall(acc, 10), Small(s[k] - 48, Len(acc))))

ParseInteger(s, L) ==
    IF Len(s) > 0 /\ s[1] = 45
    THEN Neg(ParseDigits(s, 2, Zero(L)))
    ELSE ParseDigits(s, 1, Zero(L))

\* C1 (as stated): parsing the text returned by ToString(n) with a base-10
\* parser yields n, for every n of each of the four integer types (of the
\* calls that return).
C1_RoundTrip ==
    pc = "done" /\ ~trapped => ParseInteger(ret, Limbs(ty)) = n

\* C2 (as stated): every store ToString performs lands inside the 15-byte
\* buffer: the write cursor never moves below the start of the buffer.
C2_StoresInsideBuffer == lowest >= 0


(***************************************************************************)
(* ConvertUTF82UTF16.                                                      *)
(***************************************************************************)
MaxFromLength == 5

\* the longest `heap` tried
OobSlack == 2

\* 'A', two continuation bytes, the lead bytes of a 2-byte, two 3-byte and
\* two 4-byte sequences, and a byte that is never valid
ByteSamples == {65, 128, 160, 195, 226, 237, 240, 244, 255}

\* the sequences over S of length at most k
SeqsUpTo(S, k) == UNION {[1..m -> S] : m \in 0..k}

\* U+1F600 alone, followed by 'A' and after 'A'; a lone 0xE2
Utf8Examples ==
    { <<240, 159, 152, 128>>, <<240, 159, 152, 128, 65>>,
      <<65, 240, 159, 152, 128>>, <<226>> }

FromSamples == SeqsUpTo(ByteSamples, MaxFromLength) \cup Utf8Examples

\* a read that stopped the program; in `heap`, a word whose read does so
\* (the end of the mapped memory, or an operator[] that checks its index)
Trap == 0 - 1

\* `heap` lists the words that lie after the elements of `unicode`; the words
\* after the listed ones are zero.  The words tried: values up to 0xFFFF
\* (one of them an allocator header), values above it, and a Trap as the last
\* one.  A word of 2^31 or more acts as 2^30 plus its low 26 bits (it is above
\* 0xFFFF, and the surrogates take bits 0 .. 25 of uni - 0x10000), so the
\* words are naturals below 2^31.
HeapWords == {33, 233, 66560, 1234567}

HeapSamples ==
    { words \o last : words \in SeqsUpTo(HeapWords, OobSlack - 1),
                      last \in {<<>>, <<Trap>>} \cup { <<w>> : w \in HeapWords } }

\* the caller's buffer: large enough for every store the function makes
ToCapacity == 2 * (MaxFromLength + OobSlack) + 2

CharMod == 2^16

\* the lead byte: <<uni, todo>>, or <<>> for "Not a UTF-8 string."
LeadByte(ch) ==
    IF ch <= 127 THEN <<ch, 0>>
    ELSE IF ch <= 191 THEN <<>>
    ELSE IF ch <= 223 THEN <<ch % 32, 1>>
    ELSE IF ch <= 239 THEN <<ch % 16, 2>>
    ELSE IF ch <= 247 THEN <<ch % 8, 3>>
    ELSE <<>>

\* the loop `for (j = 0; j < todo; j++)` from index at with uni assembled so
\* far: <<uni, i>> after it, or <<>> for "Not a UTF-8 string."
RECURSIVE ContinuationBytes(_, _, _, _)
ContinuationBytes(bytes, at, uni, todo) ==
    IF todo = 0 THEN <<uni, at>>
    ELSE IF at = Len(bytes) THEN <<>>
    ELSE IF bytes[at + 1] < 128 \/ bytes[at + 1] > 191 THEN <<>>
    ELSE ContinuationBytes(bytes, at + 1, uni * 64 + (bytes[at + 1] % 64), todo - 1)

IsRejected(uni) == (uni >= 55296 /\ uni <= 57343) \/ uni > 1114111

\* one iteration of `while (i < fromLength)`: <<uni, i>>, or <<>> for an
\* early return
DecodeOne(bytes, at) ==
    LET lead == LeadByte(bytes[at + 1])
    IN  IF lead = <<>> THEN <<>>
        ELSE LET r == ContinuationBytes(bytes, at + 1, lead[1], lead[2])
             IN  IF r = <<>> THEN <<>>
                 ELSE IF IsRejected(r[1]) THEN <<>>
                 ELSE r

\* unicode[at].  An index at or past Count() is out of bounds: the read
\* yields the word that lies there (Trap when the read stops the program).
UnicodeAt(at) ==
    IF at < Len(unicode) THEN unicode[at + 1]
    ELSE IF at < Len(unicode) + Len(heap) THEN heap[at - Len(unicode) + 1]
    ELSE 0

\* the code points the decode loop gives for bytes from index at on, <<>>
\* when it returns early
RECURSIVE Decoded(_, _)
Decoded(bytes, at) ==
    IF at >= Len(bytes) THEN <<>>
    ELSE LET r == DecodeOne(bytes, at)
         IN  IF r = <<>> THEN <<>> ELSE <<r[1]>> \o Decoded(bytes, r[2])

\* The heaps tried with the bytes: the count and copy loops read past
\* Count() only after a code point above 0xFFFF, so for the other inputs one
\* heap is enough.
HeapsFor(bytes) ==
    IF \E k \in 1..Len(Decoded(bytes, 0)) : Decoded(bytes, 0)[k] > 65535
    THEN HeapSamples ELSE { <<>> }

ConvertDecode ==
    /\ pc = "decode"
    /\ i < Len(from)
    /\ LET r == DecodeOne(from, i)
       IN  IF r = <<>>
           THEN /\ failed' = TRUE
                /\ pc' = "done"
                /\ UNCHANGED <<unicode, i>>
           ELSE /\ unicode' = Append(unicode, r[1])
                /\ i' = r[2]
                /\ UNCHANGED <<failed, pc>>
    /\ UNCHANGED <<from, to0, heap, to, toLength, length, trapped, NotConvert>>

\* uint32 length = (uint32)unicode.Count(); i = 0
ConvertDecoded ==
    /\ pc = "decode"
    /\ i >= Len(from)
    /\ length' = Len(unicode)
    /\ i' = 0
    /\ pc' = "count"
    /\ UNCHANGED <<from, to0, heap, to, toLength, unicode, failed, trapped, NotConvert>>

\* one iteration of `for (i = 0; i < length; i++)` of "Count chars"
ConvertCount ==
    /\ pc = "count"
    /\ i < length
    /\ LET uni == UnicodeAt(i)
       IN  IF uni = Trap
           THEN /\ trapped' = TRUE
                /\ pc' = "done"
                /\ UNCHANGED <<i, length>>
           ELSE /\ length' = IF uni > 65535 THEN length + 1 ELSE length
                /\ i' = i + 1
                /\ UNCHANGED <<trapped, pc>>
    /\ UNCHANGED <<from, to0, heap, to, toLength, unicode, failed, NotConvert>>

\* *toLength = length; i = 0
ConvertCounted ==
    /\ pc = "count"
    /\ i >= length
    /\ toLength' = length
    /\ i' = 0
    /\ pc' = "copy"
    /\ UNCHANGED <<from, to0, heap, to, unicode, length, failed, trapped, NotConvert>>

\* one iteration of `for (i = 0; i < length; i++)` of "Copy chars"
ConvertCopy ==
    /\ pc = "copy"
    /\ i < length
    /\ LET uni == UnicodeAt(i)
       IN  IF uni = Trap
           THEN /\ trapped' = TRUE
                /\ pc' = "done"
                /\ UNCHANGED <<i, to>>
           ELSE IF uni <= 65535
           THEN /\ to' = [to EXCEPT ![i] = uni % CharMod]
                /\ i' = i + 1
                /\ UNCHANGED <<trapped, pc>>
           ELSE /\ to' = [to EXCEPT
                            ![i] = (@ + ((uni - 65536) \div 1024) + 55296) % CharMod,
                            ![i + 1] = (@ + ((uni - 65536) % 1024) + 56320) % CharMod]
                /\ i' = i + 2
                /\ UNCHANGED <<trapped, pc>>
    /\ UNCHANGED <<from, to0, heap, toLength, unicode, length, failed, NotConvert>>

ConvertReturn ==
    /\ pc = "copy"
    /\ i >= length
    /\ pc' = "done"
    /\ UNCHANGED <<utfVars, trapped, NotConvert>>

\* *toLength = 0 has run; `to` holds what the caller left in it
ConvertInit ==
    /\ pc = "decode"
    /\ from \in FromSamples
    /\ heap \in HeapsFor(from)
    /\ to0 \in {[k \in 0..(ToCapacity - 1) |-> fill] : fill \in {0, CharMod - 1}}
    /\ to = to0
    /\ toLength = 0
    /\ unicode = <<>>
    /\ i = 0
    /\ length = 0
    /\ failed = FALSE
    /\ trapped = FALSE
    /\ ToStringIdle /\ FindIdle /\ ParseIdle /\ PathIdle /\ NameIdle

ConvertNext ==
    \/ ConvertDecode
    \/ ConvertDecoded
    \/ ConvertCount
    \/ ConvertCounted
    \/ ConvertCopy
    \/ ConvertReturn

SpecConvert == ConvertInit /\ [][ConvertNext]_vars

\* the UTF-16 units of a list of code points
RECURSIVE Utf16(_)
Utf16(cps) ==
    IF cps = <<>> THEN <<>>
    ELSE IF Head(cps) <= 65535 THEN <<Head(cps)>> \o Utf16(Tail(cps))
    ELSE << ((Head(cps) - 65536) \div 1024) + 55296,
            ((Head(cps) - 65536) % 1024) + 56320 >> \o Utf16(Tail(cps))

\* C3 (as stated): for well-formed input and any initial contents of `to`,
\* the call returns with `to` holding the UTF-16 units of the decoded code
\* points in input order and *toLength their number; U+1F600 gives exactly
\* (0xD83D, 0xDE00).
C3_UnitsWritten ==
    (pc = "done" /\ ~failed) =>
        /\ ~trapped
        /\ toLength = Len(Utf16(unicode))
        /\ \A k \in 1..Len(Utf16(unicode)) : to[k - 1] = Utf16(unicode)[k]
        /\ (from = <<240, 159, 152, 128>> =>
                toLength = 2 /\ to[0] = 55357 /\ to[1] = 56832)

\* C4 (as stated): a call that gave up on malformed input leaves the caller
\* with something no successful call leaves; in particular not with what the
\* successful decode of the empty input leaves, *toLength = 0 and `to`
\* untouched.
C4_FailureDistinct ==
    (pc = "done" /\ failed) => ~(toLength = 0 /\ to = to0)

\* the successful decode of the empty input: *toLength = 0, `to` untouched
C4_EmptySucceeds ==
    pc = "done" /\ from = <<>> /\ ~failed /\ ~trapped /\ toLength = 0 /\ to = to0


(***************************************************************************)
(* FindIgnoreCase (both overloads).                                        *)
(***************************************************************************)
MaxStrLength == 3

MaxFindLength == 2

\* nullptr
Null == << 0 - 1 >>

NotFound == 0 - 1

\* 'a', 'A', 'b', and units outside ASCII: 0xE9 and 0xC9 (a lower/upper pair
\* of Latin-1) for both overloads, 0x0141 for the 16-bit one
UnitSamples(w) == IF w THEN {97, 65, 98, 233, 321} ELSE {97, 65, 98, 233, 201}

\* "Hello World", "WORLD"
HelloWorld == <<72, 101, 108, 108, 111, 32, 87, 111, 114, 108, 100>>

WORLD == <<87, 79, 82, 76, 68>>

\* the unit s[k] of a C string, k = Len(s) being its terminator; nothing is
\* defined past the terminator
CharAt(s, k) ==
    CASE k >= 0 /\ k < Len(s) -> s[k + 1]
      [] k = Len(s) -> 0

\* StringUtils::ToUpper: the ASCII upper-casing primitive
ToUpper(c) == IF c >= 97 /\ c <= 122 THEN c - 32 ELSE c

\* StringUtils::ToLower: the ASCII lower-casing primitive
ToLower(c) == IF c >= 65 /\ c <= 90 THEN c + 32 ELSE c

\* StringUtils::CompareIgnoreCase(a + ai, b + bi, cnt): 0 when the first cnt
\* units (or all units up to a common terminator) agree ignoring ASCII case
RECURSIVE CompareIgnoreCase(_, _, _, _, _)
CompareIgnoreCase(a, ai, b, bi, cnt) ==
    IF cnt <= 0 THEN 0
    ELSE LET ca == ToLower(CharAt(a, ai))
             cb == ToLower(CharAt(b, bi))
         IN  IF ca # cb THEN ca - cb
             ELSE IF ca = 0 THEN 0
             ELSE CompareIgnoreCase(a, ai + 1, b, bi + 1, cnt - 1)

\* Length(s): the number of units before the terminator
Length(s) == Len(s)

\* the validation, and the locals set up before the loop
FindBegin ==
    /\ pc = "FindIgnoreCase"
    /\ IF toFind = Null \/ str = Null
       THEN /\ found' = NotFound
            /\ pc' = "done"
            /\ UNCHANGED <<findInitial, len, sp, strChar>>
       ELSE /\ findInitial' = ToUpper(CharAt(toFind, 0))
            /\ len' = Length(toFind) - 1
            /\ strChar' = CharAt(str, 0)
            /\ sp' = 1
            /\ pc' = "scan"
            /\ UNCHANGED found
    /\ UNCHANGED <<wide, str, toFind, NotFind>>

\* FindScan comparing the first letters without upper-casing strChar
FindScanAsIs ==
    /\ pc = "scan"
    /\ strChar # 0
    /\ IF strChar = findInitial /\ CompareIgnoreCase(str, sp, toFind, 1, len) = 0
       THEN /\ found' = sp - 1
            /\ pc' = "done"
            /\ UNCHANGED <<sp, strChar>>
       ELSE /\ strChar' = CharAt(str, sp)
            /\ sp' = sp + 1
            /\ UNCHANGED <<found, pc>>
    /\ UNCHANGED <<wide, str, toFind, findInitial, len, NotFind>>

\* one iteration of `while (strChar)`; toFind has been advanced by one
FindScan ==
    /\ pc = "scan"
    /\ strChar # 0
    /\ IF ToUpper(strChar) = findInitial /\ CompareIgnoreCase(str, sp, toFind, 1, len) = 0
       THEN /\ found' = sp - 1
            /\ pc' = "done"
            /\ UNCHANGED <<sp, strChar>>
       ELSE /\ strChar' = CharAt(str, sp)
            /\ sp' = sp + 1
            /\ UNCHANGED <<found, pc>>
    /\ UNCHANGED <<wide, str, toFind, findInitial, len, NotFind>>

\* "Nothing found"
FindNothing ==
    /\ pc = "scan"
    /\ strChar = 0
    /\ found' = NotFound
    /\ pc' = "done"
    /\ UNCHANGED <<wide, str, toFind, findInitial, len, sp, strChar, NotFind>>

FindInit ==
    /\ pc = "FindIgnoreCase"
    /\ wide \in BOOLEAN
    /\ \E args \in
            ((SeqsUpTo(UnitSamples(wide), MaxStrLength) \cup {Null})
                \X (SeqsUpTo(UnitSamples(wide), MaxFindLength) \cup {Null}))
            \cup {<<HelloWorld, WORLD>>, <<HelloWorld, <<>>>>} :
          /\ str = args[1]
          /\ toFind = args[2]
    /\ findInitial = 0
    /\ len = 0
    /\ sp = 0
    /\ strChar = 0
    /\ found = NotFound
    /\ trapped = FALSE
    /\ ToStringIdle /\ ConvertIdle /\ ParseIdle /\ PathIdle /\ NameIdle

FindNext ==
    \/ FindBegin
    \/ FindScan
    \/ FindNothing

SpecFind == FindInit /\ [][FindNext]_vars

\* two code units are the same ASCII letter in either case, or the same unit
SameIgnoringAsciiCase(a, b) ==
    \/ a = b
    \/ /\ a \in 65..90 /\ b = a + 32
    \/ /\ a \in 97..122 /\ b = a - 32

\* the needle lies in the haystack at position p
MatchesAt(hay, needle, p) ==
    /\ p + Len(needle) <= Len(hay)
    /\ \A k \in 1..Len(needle) : SameIgnoringAsciiCase(hay[p + k], needle[k])

FirstMatch(hay, needle) ==
    LET ps == {p \in 0..Len(hay) : MatchesAt(hay, needle, p)}
    IN  IF ps = {} THEN NotFound ELSE CHOOSE p \in ps : \A q \in ps : p <= q

\* C5 (as stated): with a non-null haystack and an empty needle, both
\* overloads report a match at the start of the haystack.
C5_EmptyNeedleMatchesAtStart ==
    (pc = "done" /\ str # Null /\ toFind = <<>>) => found = 0

\* C6: with a non-empty needle (or a null argument) the result is the
\* smallest position at which the needle matches the haystack ignoring ASCII
\* case, other units compared exactly; not-found when there is none or when
\* an argument is null.
C6_FirstMatchIgnoringCase ==
    (pc = "done" /\ toFind # <<>>) =>
        /\ (str = Null \/ toFind = Null) => found = NotFound
        /\ (str # Null /\ toFind # Null) => found = FirstMatch(str, toFind)
        /\ (str = HelloWorld /\ toFind = WORLD) => found = 6

\* a match found past the start, at units that differ from the needle's in case
C6_Witness ==
    /\ pc = "done" /\ str # Null /\ toFind # Null /\ toFind # <<>>
    /\ found > 0
    /\ \E k \in 1..Len(toFind) : str[found + k] # toFind[k]


(***************************************************************************)
(* Parse (float).                                                          *)
(***************************************************************************)
MaxTextLength == 3

\* '0', '1', '.', ',', '-', ' ', TAB, 'a', 'e', 'x'
TextSamples == {48, 49, 46, 44, 45, 32, 9, 97, 101, 120}

\* "abc"
Abc == <<97, 98, 99>>

\* "inf", "nan", "1e-50", "1e39", "0x.8p1", and texts next to the least and
\* the greatest float: "7.0064923217e-46", "3.402823568e38",
\* "0x1.000001p-150", "0x1.00000001p-150"
TextExamples ==
    { <<105, 110, 102>>,
      <<110, 97, 110>>,
      <<49, 101, 45, 53, 48>>,
      <<49, 101, 51, 57>>,
      <<48, 120, 46, 56, 112, 49>>,
      <<55, 46, 48, 48, 54, 52, 57, 50, 51, 50, 49, 55, 101, 45, 52, 54>>,
      <<51, 46, 52, 48, 50, 56, 50, 51, 53, 54, 56, 101, 51, 56>>,
      <<48, 120, 49, 46, 48, 48, 48, 48, 48, 49, 112, 45, 49, 53, 48>>,
      <<48, 120, 49, 46, 48, 48, 48, 48, 48, 48, 48, 49, 112, 45, 49, 53, 48>> }

\* iswspace in the "C" locale: TAB, LF, VT, FF, CR and the space
IsSpace(ch) == (ch >= 9 /\ ch <= 13) \/ ch = 32

AsciiLower(ch) == IF ch >= 65 /\ ch <= 90 THEN ch + 32 ELSE ch

DigitValue(ch) == ch - 48

\* the value of a hexadecimal digit, -1 for any other unit
HexValue(ch) ==
    IF IsDigit(ch) THEN ch - 48
    ELSE IF AsciiLower(ch) >= 97 /\ AsciiLower(ch) <= 102 THEN AsciiLower(ch) - 87
    ELSE 0 - 1

IsHexDigit(ch) == HexValue(ch) >= 0

\* ch is of the class: white space, a decimal digit, a hexadecimal digit
InClass(class, ch) ==
    IF class = "space" THEN IsSpace(ch)
    ELSE IF class = "digit" THEN IsDigit(ch)
    ELSE IsHexDigit(ch)

\* the number of units of s from index k on that are of the class, up to the
\* first one that is not
RunLength(s, k, class) ==
    LET most == IF k < Len(s) THEN Len(s) - k ELSE 0
    IN  CHOOSE j \in 0..most :
            /\ \A h \in 0..(j - 1) : InClass(class, CharAt(s, k + h))
            /\ (j = most \/ ~InClass(class, CharAt(s, k + j)))

\* the number of white space units of s from index k on
SpaceRun(s, k) == RunLength(s, k, "space")

\* the units of s from index k on spell word, in either case
MatchesWord(s, k, word) ==
    \A j \in 1..Len(word) : AsciiLower(CharAt(s, k + j - 1)) = word[j]

\* Digits of the class with at most one '.' among them, from index k on: the
\* values of the digits in order, how many of them stand after the '.', and
\* the index where the scan stopped.
ScanDigits(s, k, class) ==
    LET nInt == RunLength(s, k, class)
        dot == CharAt(s, k + nInt) = 46
        nFrac == IF dot THEN RunLength(s, k + nInt + 1, class) ELSE 0
    IN  [ digits |-> [j \in 1..(nInt + nFrac) |->
                         HexValue(CharAt(s, k + j - 1 + (IF j > nInt THEN 1 ELSE 0)))],
          frac |-> nFrac,
          at |-> k + nInt + (IF dot THEN 1 + nFrac ELSE 0) ]

DecimalScan(s, k) == ScanDigits(s, k, "digit")

HexScan(s, k) == ScanDigits(s, k, "hex")

\* Naturals of any size: the little-endian sequence of the 16-bit limbs,
\* without a zero limb at the top; <<>> is 0.
BigTrim(x) ==
    LET used == {j \in 1..Len(x) : x[j] # 0}
    IN  IF used = {} THEN <<>>
        ELSE SubSeq(x, 1, CHOOSE j \in used : \A h \in used : h <= j)

\* x * k + c, for 0 < k <= 2^15 and 0 <= c < 2^15.  sum[j] is limb j before
\* the carries; a carry enters limb j when a limb below it overflows and all
\* limbs between are full.
BigMulAdd(x, k, c) ==
    LET sum == [j \in 1..(Len(x) + 1) |->
                   (IF j <= Len(x) THEN (x[j] * k) % LimbBase ELSE 0)
                   + (IF j = 1 THEN c ELSE (x[j - 1] * k) \div LimbBase)]
        carry(j) == \E h \in 1..(j - 1) :
                        /\ sum[h] >= LimbBase
                        /\ \A m \in (h + 1)..(j - 1) : sum[m] = LimbBase - 1
    IN  BigTrim([j \in 1..(Len(x) + 1) |->
                    (sum[j] + (IF carry(j) THEN 1 ELSE 0)) % LimbBase])

\* x - y, for x >= y
BigSub(x, y) ==
    LET diff == [j \in 1..Len(x) |-> x[j] - (IF j <= Len(y) THEN y[j] ELSE 0)]
        borrow(j) == \E h \in 1..(j - 1) :
                         /\ diff[h] < 0
                         /\ \A m \in (h + 1)..(j - 1) : diff[m] = 0
    IN  BigTrim([j \in 1..Len(x) |->
                    (diff[j] - (IF borrow(j) THEN 1 ELSE 0) + LimbBase) % LimbBase])

\* -1, 0 or 1 as x is below, equal to or above y
BigCmp(x, y) ==
    LET differ == {j \in 1..Len(x) : j <= Len(y) /\ x[j] # y[j]}
        top == CHOOSE j \in differ : \A h \in differ : h <= j
    IN  IF Len(x) < Len(y) THEN 0 - 1
        ELSE IF Len(x) > Len(y) THEN 1
        ELSE IF differ = {} THEN 0
        ELSE IF x[top] < y[top] THEN 0 - 1 ELSE 1

\* x * 2^k
BigShl(x, k) ==
    IF x = <<>> THEN <<>>
    ELSE [j \in 1..(k \div 16) |-> 0] \o BigMulAdd(x, 2 ^ (k % 16), 0)

\* the number of bits of m, 0 < m < 2^30
BitCount(m) == CHOOSE b \in 1..30 : m < 2 ^ b /\ (b = 1 \/ m >= 2 ^ (b - 1))

\* the number of bits of x
BigBits(x) == IF x = <<>> THEN 0 ELSE 16 * (Len(x) - 1) + BitCount(x[Len(x)])

\* x * 10^k, four powers at a step
RECURSIVE BigTimes10(_, _)
BigTimes10(x, k) ==
    IF k = 0 THEN x
    ELSE LET rest == BigTimes10(x, IF k >= 4 THEN k - 4 ELSE k - 1)
         IN  IF rest = <<>> THEN <<>>
             ELSE BigMulAdd(rest, IF k >= 4 THEN 10000 ELSE 10, 0)

\* the number the first k of the decimal digits spell, four digits at a step
RECURSIVE BigOfDigits(_, _)
BigOfDigits(digits, k) ==
    IF k = 0 THEN <<>>
    ELSE LET rest == BigOfDigits(digits, IF k >= 4 THEN k - 4 ELSE k - 1)
             low == IF k >= 4
                    THEN digits[k - 3] * 1000 + digits[k - 2] * 100
                         + digits[k - 1] * 10 + digits[k]
                    ELSE digits[k]
         IN  IF rest = <<>> THEN BigTrim(<<low>>)
             ELSE BigMulAdd(rest, IF k >= 4 THEN 10000 ELSE 10, low)

\* the number the hexadecimal digits spell: four of them to a limb
BigOfHex(digits) ==
    LET digit(at) == IF at >= 1 THEN digits[at] ELSE 0
    IN  BigTrim([j \in 1..((Len(digits) + 3) \div 4) |->
                    digit(Len(digits) - 4 * (j - 1))
                    + 16 * digit(Len(digits) - 4 * (j - 1) - 1)
                    + 256 * digit(Len(digits) - 4 * (j - 1) - 2)
                    + 4096 * digit(Len(digits) - 4 * (j - 1) - 3)])

\* the bits k .. 0 of the quotient of x by y (x < y * 2^(k+1)), added to q,
\* and the remainder
RECURSIVE BigDivBits(_, _, _, _)
BigDivBits(x, y, k, q) ==
    IF k < 0 THEN [q |-> q, rem |-> x]
    ELSE IF BigCmp(x, BigShl(y, k)) >= 0
    THEN BigDivBits(BigSub(x, BigShl(y, k)), y, k - 1, q + 2 ^ k)
    ELSE BigDivBits(x, y, k - 1, q)

\* the number the cnt decimal digits of s from index k on spell
RECURSIVE SmallOfDigits(_, _, _, _)
SmallOfDigits(s, k, cnt, acc) ==
    IF cnt = 0 THEN acc
    ELSE SmallOfDigits(s, k + 1, cnt - 1, acc * 10 + DigitValue(CharAt(s, k)))

\* The number the decimal digits of s from index k on spell, or 10^8 when it
\* is more: from there on no exponent changes the float any more.
ExponentDigits(s, k) ==
    LET cnt == RunLength(s, k, "digit")
    IN  IF \E h \in 0..(cnt - 10) : CharAt(s, k + h) # 48 THEN 100000000
        ELSE Min(100000000,
                 SmallOfDigits(s, IF cnt > 9 THEN k + cnt - 9 ELSE k,
                               IF cnt > 9 THEN 9 ELSE cnt, 0))

\* The exponent part at index k: the marker ('e' or 'p', in either case), an
\* optional sign and at least one digit; 0 when there is no such part.
Exponent(s, k, marker) ==
    LET first == IF CharAt(s, k + 1) \in {43, 45} THEN k + 2 ELSE k + 1
    IN  IF AsciiLower(CharAt(s, k)) = marker /\ IsDigit(CharAt(s, first))
        THEN IF CharAt(s, k + 1) = 45 THEN 0 - ExponentDigits(s, first)
             ELSE ExponentDigits(s, first)
        ELSE 0

\* The float for mant * 2^(e - 23), 2^23 <= mant < 2^24, the 24 leading bits
\* of a number whose next bit is round and whose further bits are not all
\* zero exactly when more: the nearest float, the even one of two equally
\* near.  This is round_and_return of the C library the program is built
\* with (glibc): for a subnormal result it shifts the 24 bits right and
\* rounds once more, and then takes the bit round for a zero, always for a
\* hexadecimal text, and for a decimal one when the shift is by one bit.
RoundAndReturn(neg, mant, e, round, more, hexadecimal) ==
    IF e < 0 - 126
    THEN LET shift == (0 - 126) - e
             sticky == more \/ (round /\ ~(hexadecimal \/ shift = 1))
             roundBit == (mant \div (2 ^ (shift - 1))) % 2 = 1
             moreBits == sticky \/ (mant % (2 ^ (shift - 1)) # 0)
             shifted == mant \div (2 ^ shift)
         IN  IF shift > 24 THEN Float(neg, 0, 0)
             ELSE Float(neg,
                        IF roundBit /\ (moreBits \/ shifted % 2 = 1)
                        THEN shifted + 1 ELSE shifted,
                        0 - 149)
    ELSE LET up == IF round /\ (more \/ mant % 2 = 1) THEN mant + 1 ELSE mant
             top == IF up = 16777216 THEN e + 1 ELSE e
         IN  IF top > 127 THEN Infinity(neg)
             ELSE Float(neg, IF up = 16777216 THEN 8388608 ELSE up, top - 23)

\* The float for numer / denom * 2^exp (numer > 0, denom > 0): e is the position of
\* the leading bit of the number, quot its 24 leading bits.
ToFloat(neg, numer, denom, exp, hexadecimal) ==
    LET bn == BigBits(numer)
        bd == BigBits(denom)
        reaches == IF bd >= bn THEN BigCmp(BigShl(numer, bd - bn), denom) >= 0
                   ELSE BigCmp(numer, BigShl(denom, bn - bd)) >= 0
        e == IF reaches THEN bn - bd + exp ELSE bn - bd + exp - 1
        shl == exp - e + 23
        quot == BigDivBits(IF shl >= 0 THEN BigShl(numer, shl) ELSE numer,
                           IF shl >= 0 THEN denom ELSE BigShl(denom, 0 - shl), 23, 0)
        half == BigCmp(BigShl(quot.rem, 1),
                       IF shl >= 0 THEN denom ELSE BigShl(denom, 0 - shl))
    IN  IF bn - bd + exp < 0 - 152 THEN Float(neg, 0, 0)
        ELSE IF bn - bd + exp > 130 THEN Infinity(neg)
        ELSE RoundAndReturn(neg, quot.q, e, half >= 0,
                            IF half >= 0 THEN half > 0 ELSE quot.rem # <<>>,
                            hexadecimal)

\* mant * 10^exp as a float.  10^exp lies between 2^(3 exp) and 2^(4 exp), so
\* the first two cases are a zero and an infinity without the power.
DecimalToFloat(neg, mant, exp) ==
    IF mant = <<>> THEN Float(neg, 0, 0)
    ELSE IF exp < 0 /\ BigBits(mant) + 3 * exp < 0 - 152 THEN Float(neg, 0, 0)
    ELSE IF exp > 0 /\ BigBits(mant) + 3 * exp > 132 THEN Infinity(neg)
    ELSE IF exp >= 0 THEN ToFloat(neg, BigTimes10(mant, exp), <<1>>, 0, FALSE)
    ELSE ToFloat(neg, mant, BigTimes10(<<1>>, 0 - exp), 0, FALSE)

\* mant * 2^exp as a float
HexToFloat(neg, mant, exp) ==
    IF mant = <<>> THEN Float(neg, 0, 0)
    ELSE ToFloat(neg, mant, <<1>>, exp, TRUE)

\* wcstof(str, nullptr) in the "C" locale: white space, an optional sign,
\* then "inf", "nan", a hexadecimal number ("0x", digits with an optional
\* '.', an optional binary exponent) or a decimal number (digits with an
\* optional '.', an optional exponent); +0 when no number is there.
wcstof(s) ==
    LET start == SpaceRun(s, 0)
        neg == CharAt(s, start) = 45
        first == IF CharAt(s, start) \in {43, 45} THEN start + 1 ELSE start
        isHex == /\ CharAt(s, first) = 48
                 /\ AsciiLower(CharAt(s, first + 1)) = 120
                 /\ \/ IsHexDigit(CharAt(s, first + 2))
                    \/ /\ CharAt(s, first + 2) = 46
                       /\ IsHexDigit(CharAt(s, first + 3))
        hex == HexScan(s, first + 2)
        dec == DecimalScan(s, first)
    IN  IF MatchesWord(s, first, <<105, 110, 102>>) THEN Infinity(neg)
        ELSE IF MatchesWord(s, first, <<110, 97, 110>>) THEN NaN(neg)
        ELSE IF isHex
        THEN HexToFloat(neg, BigOfHex(hex.digits),
                        Exponent(s, hex.at, 112) - 4 * hex.frac)
        ELSE IF dec.digits = <<>> THEN Float(FALSE, 0, 0)
        ELSE DecimalToFloat(neg, BigOfDigits(dec.digits, Len(dec.digits)),
                            Exponent(s, dec.at, 101) - dec.frac)

\* ParseReturn taking only '.' between the two zeros
ParseReturnDotOnly(s, val) ==
    IF FloatIsZero(val)
    THEN ~( CharAt(s, 0) = 48
            /\ ( Length(s) = 1
                 \/ ( Length(s) = 3 /\ CharAt(s, 1) = 46 /\ CharAt(s, 2) = 48 ) ) )
    ELSE FALSE

\* the value returned for the text s once wcstof gave val
ParseReturn(s, val) ==
    IF FloatIsZero(val)
    THEN ~( CharAt(s, 0) = 48
            /\ ( Length(s) = 1
                 \/ ( Length(s) = 3
                      /\ (CharAt(s, 1) = 44 \/ CharAt(s, 1) = 46)
                      /\ CharAt(s, 2) = 48 ) ) )
    ELSE FALSE

ParseCall ==
    /\ pc = "Parse"
    /\ v' = wcstof(text)
    /\ result' = v'
    /\ returned' = ParseReturn(text, v')
    /\ pc' = "done"
    /\ UNCHANGED <<text, NotParse>>

ParseInit ==
    /\ pc = "Parse"
    /\ text \in SeqsUpTo(TextSamples, MaxTextLength) \cup {Abc} \cup TextExamples
    /\ v = Float(FALSE, 0, 0)
    /\ result = Float(FALSE, 0, 0)
    /\ returned = FALSE
    /\ trapped = FALSE
    /\ ToStringIdle /\ ConvertIdle /\ FindIdle /\ PathIdle /\ NameIdle

ParseNext == ParseCall

SpecParse == ParseInit /\ [][ParseNext]_vars

\* "0", "0.0", "0,0"
ZeroLiterals == { <<48>>, <<48, 46, 48>>, <<48, 44, 48>> }

\* C7: Parse reports success (it returns false: the return value flags the
\* failure) exactly when the decimal parser gave a non-zero value or the text
\* is one of "0", "0.0", "0,0"; "0.0" is a successful parse of zero, "abc" a
\* failure with value zero.
C7_SuccessIffNonZeroOrZeroLiteral ==
    pc = "done" =>
        /\ (~returned) <=> (~FloatIsZero(v) \/ text \in ZeroLiterals)
        /\ text = <<48, 46, 48>> => (~returned /\ FloatIsZero(result))
        /\ text = Abc => (returned /\ FloatIsZero(result))

\* a text other than the three literals that parses to zero, reported as a
\* failure
C7_Witness ==
    /\ pc = "done" /\ FloatIsZero(v) /\ Len(text) > 0 /\ text[1] = 48
    /\ text \notin ZeroLiterals /\ returned

(***************************************************************************)
(* PathRemoveRelativeParts.                                                *)
(***************************************************************************)
MaxPathLength == 5

\* 'a', '.', '/', '\'
PathSamples == {97, 46, 47, 92}

\* "a/./b/../c", "/a/../../b"
PathExamples ==
    { <<97, 47, 46, 47, 98, 47, 46, 46, 47, 99>>,
      <<47, 97, 47, 46, 46, 47, 46, 46, 47, 98>> }

\* ".", ".."
Dot == <<46>>

DotDot == <<46, 46>>

\* FileSystem::NormalizePath: every separator becomes '/'
NormalizePath(s) == [k \in 1..Len(s) |-> IF s[k] = 92 THEN 47 ELSE s[k]]

\* String::Split(sep, out): the non-empty pieces between separators, in order
RECURSIVE SplitFrom(_, _, _, _)
SplitFrom(s, sep, k, piece) ==
    IF k > Len(s) THEN (IF piece = <<>> THEN <<>> ELSE <<piece>>)
    ELSE IF s[k] = sep
         THEN (IF piece = <<>> THEN <<>> ELSE <<piece>>) \o SplitFrom(s, sep, k + 1, <<>>)
         ELSE SplitFrom(s, sep, k + 1, Append(piece, s[k]))

Split(s, sep) == SplitFrom(s, sep, 1, <<>>)

\* `for (auto& e : stack) path /= e`: the entries joined with '/'
RECURSIVE JoinPath(_)
JoinPath(entries) ==
    IF entries = <<>> THEN <<>>
    ELSE IF Len(entries) = 1 THEN entries[1]
    ELSE entries[1] \o <<47>> \o JoinPath(Tail(entries))

\* FileSystem::NormalizePath(path); path.Split('/', components)
PathBegin ==
    /\ pc = "PathRemoveRelativeParts"
    /\ path' = NormalizePath(path)
    /\ components' = Split(path', 47)
    /\ stack' = <<>>
    /\ bitAt' = 1
    /\ pc' = "fold"
    /\ UNCHANGED <<path0, NotPath>>

\* PathFold pushing `.` like any other segment
PathFoldKeepsDot ==
    /\ pc = "fold"
    /\ bitAt <= Len(components)
    /\ LET bit == components[bitAt]
       IN  stack' =
             IF bit = DotDot
             THEN IF stack # <<>>
                  THEN LET popped == stack[Len(stack)]
                       IN  IF popped = DotDot
                           THEN Append(stack, bit)
                           ELSE SubSeq(stack, 1, Len(stack) - 1)
                  ELSE Append(stack, bit)
             ELSE Append(stack, bit)
    /\ bitAt' = bitAt + 1
    /\ UNCHANGED <<pc, path0, path, components, NotPath>>

\* one iteration of `for (auto& bit : components)`
PathFold ==
    /\ pc = "fold"
    /\ bitAt <= Len(components)
    /\ LET bit == components[bitAt]
       IN  stack' =
             IF bit = DotDot
             THEN IF stack # <<>>
                  THEN LET popped == stack[Len(stack)]
                       IN  IF popped = DotDot
                           THEN Append(stack, bit)
                           ELSE SubSeq(stack, 1, Len(stack) - 1)
                  ELSE Append(stack, bit)
             ELSE IF bit = Dot THEN stack
             ELSE Append(stack, bit)
    /\ bitAt' = bitAt + 1
    /\ UNCHANGED <<pc, path0, path, components, NotPath>>

\* PathJoin without the Insert of the leading separator
PathJoinUnrooted ==
    /\ pc = "fold"
    /\ bitAt > Len(components)
    /\ path' = JoinPath(stack)
    /\ pc' = "done"
    /\ UNCHANGED <<path0, components, stack, bitAt, NotPath>>

\* isRooted, Clear, the join and the Insert
PathJoin ==
    /\ pc = "fold"
    /\ bitAt > Len(components)
    /\ LET isRooted == Len(path) > 0 /\ path[1] = 47
       IN  path' = (IF isRooted THEN <<47>> ELSE <<>>) \o JoinPath(stack)
    /\ pc' = "done"
    /\ UNCHANGED <<path0, components, stack, bitAt, NotPath>>

PathInit ==
    /\ pc = "PathRemoveRelativeParts"
    /\ path0 \in SeqsUpTo(PathSamples, MaxPathLength) \cup PathExamples
    /\ path = path0
    /\ components = <<>>
    /\ stack = <<>>
    /\ bitAt = 0
    /\ trapped = FALSE
    /\ ToStringIdle /\ ConvertIdle /\ FindIdle /\ ParseIdle /\ NameIdle

PathNext ==
    \/ PathBegin
    \/ PathFold
    \/ PathJoin

SpecPath == PathInit /\ [][PathNext]_vars

IsSeparator(ch) == ch = 47 \/ ch = 92

\* the segments of a path: its maximal runs of units that are no separator
Segments(s) ==
    LET starts == {k \in 1..Len(s) :
                      ~IsSeparator(s[k]) /\ (k = 1 \/ IsSeparator(s[k - 1]))}
        EndOf(k) == CHOOSE e \in k..Len(s) :
                      /\ \A j \in k..e : ~IsSeparator(s[j])
                      /\ (e = Len(s) \/ IsSeparator(s[e + 1]))
        Nth[m \in 1..Cardinality(starts)] ==
            CHOOSE k \in starts : Cardinality({j \in starts : j < k}) = m - 1
    IN  [m \in 1..Cardinality(starts) |-> SubSeq(s, Nth[m], EndOf(Nth[m]))]

\* the stack of the fold over segments: push, drop `.`, and on `..` pop
\* unless the stack is empty or has `..` on top, where `..` is pushed
RECURSIVE FoldSegments(_, _)
FoldSegments(segs, stk) ==
    IF segs = <<>> THEN stk
    ELSE LET seg == Head(segs)
             next == IF seg = Dot THEN stk
                     ELSE IF seg # DotDot THEN stk \o <<seg>>
                     ELSE IF stk = <<>> \/ stk[Len(stk)] = DotDot THEN stk \o <<seg>>
                     ELSE SubSeq(stk, 1, Len(stk) - 1)
         IN  FoldSegments(Tail(segs), next)

\* the entries with a separator before each
RECURSIVE Slashed(_)
Slashed(entries) ==
    IF entries = <<>> THEN <<>> ELSE <<47>> \o Head(entries) \o Slashed(Tail(entries))

BeginsWithSeparator(s) == Len(s) > 0 /\ IsSeparator(s[1])

\* the path the fold gives: the stack joined by separators, one separator in
\* front exactly when the path began with one
FoldedPath(s) ==
    LET joined == Slashed(FoldSegments(Segments(s), <<>>))
    IN  IF BeginsWithSeparator(s) THEN (IF joined = <<>> THEN <<47>> ELSE joined)
        ELSE (IF joined = <<>> THEN <<>> ELSE Tail(joined))

\* some prefix of the path has more `..` segments than ordinary ones: the
\* path ascends past the directory it starts in
AscendsPastStart(s) ==
    \E m \in 1..Len(Segments(s)) :
        Cardinality({j \in 1..m : Segments(s)[j] = DotDot})
            > Cardinality({j \in 1..m : Segments(s)[j] \notin {Dot, DotDot}})

FirstSegmentIsDotDot(s) == Len(Segments(s)) > 0 /\ Segments(s)[1] = DotDot

HasDotSegment(s) == \E m \in 1..Len(Segments(s)) : Segments(s)[m] = Dot

\* C8 (as stated): the result has no `.` segment; it begins with `..` only
\* when the original path was relative and ascended past its start; the
\* result for an absolute path never has `..` as its first segment.
C8_AsStated ==
    pc = "done" =>
        /\ ~HasDotSegment(path)
        /\ FirstSegmentIsDotDot(path) =>
               (~BeginsWithSeparator(path0) /\ AscendsPastStart(path0))
        /\ BeginsWithSeparator(path0) => ~FirstSegmentIsDotDot(path)

\* C8 (amended): the result has no `.` segment, and it begins with `..`
\* exactly when the `..` segments of the original path, relative or
\* absolute, ascended past the directory it starts in.
C8_LeadingDotDotIffAscends ==
    pc = "done" =>
        /\ ~HasDotSegment(path)
        /\ FirstSegmentIsDotDot(path) <=> AscendsPastStart(path0)

\* an absolute path with a `.` segment whose result begins with `..`
C8_Witness ==
    /\ pc = "done" /\ BeginsWithSeparator(path0) /\ HasDotSegment(path0)
    /\ FirstSegmentIsDotDot(path)

\* C9: the path becomes the separator-joined contents of the stack folded
\* from its non-empty segments, with one leading separator exactly when the
\* separator-normalized input began with one; "a/./b/../c" becomes "a/c" and
\* "/a/../../b" becomes "/../b".
C9_FoldedPath ==
    pc = "done" =>
        /\ path = FoldedPath(path0)
        /\ path0 = <<97, 47, 46, 47, 98, 47, 46, 46, 47, 99>> => path = <<97, 47, 99>>
        /\ path0 = <<47, 97, 47, 46, 46, 47, 46, 46, 47, 98>>
               => path = <<47, 46, 46, 47, 98>>

\* a rooted path with a `..` that pops and a `..` that is kept
C9_Witness ==
    /\ pc = "done"
    /\ path0 = <<47, 97, 47, 46, 46, 47, 46, 46, 47, 98>>
    /\ path = <<47, 46, 46, 47, 98>>

(***************************************************************************)
(* GetFileName.                                                            *)
(***************************************************************************)
MaxNameLength == 4

DirectorySeparatorChar == 92

AltDirectorySeparatorChar == 47

VolumeSeparatorChar == 58

\* 'a', '.', and the three separators
NameSamples == {97, 46, DirectorySeparatorChar, AltDirectorySeparatorChar,
                VolumeSeparatorChar}

\* "C:\a\b.txt", "noseparator"
NameExampleWindows == <<67, 58, 92, 97, 92, 98, 46, 116, 120, 116>>

NameExamplePlain == <<110, 111, 115, 101, 112, 97, 114, 97, 116, 111, 114>>

\* String::Substring(startIndex, count)
Substring(s, startIndex, count) == SubSeq(s, startIndex + 1, startIndex + count)

\* const int32 length = path.Length(); int32 num = length
FileNameBegin ==
    /\ pc = "GetFileName"
    /\ num' = Len(fpath)
    /\ pc' = "scan"
    /\ UNCHANGED <<fpath0, fpath, chr, fileName, NotName>>

\* FileNameScan that does not stop at the volume separator
FileNameScanNoVolume ==
    /\ pc = "scan"
    /\ num' = num - 1
    /\ IF num' < 0
       THEN /\ fileName' = fpath
            /\ pc' = "done"
            /\ UNCHANGED chr
       ELSE /\ chr' = fpath[num' + 1]
            /\ IF chr' # DirectorySeparatorChar /\ chr' # AltDirectorySeparatorChar
               THEN UNCHANGED <<fileName, pc>>
               ELSE /\ fileName' = Substring(fpath, num' + 1, Len(fpath) - num' - 1)
                    /\ pc' = "done"
    /\ UNCHANGED <<fpath0, fpath, NotName>>

\* one iteration of the do-while loop, and the return that follows it
FileNameScan ==
    /\ pc = "scan"
    /\ num' = num - 1
    /\ IF num' < 0
       THEN /\ fileName' = fpath
            /\ pc' = "done"
            /\ UNCHANGED chr
       ELSE /\ chr' = fpath[num' + 1]
            /\ IF chr' # DirectorySeparatorChar /\ chr' # AltDirectorySeparatorChar
                  /\ chr' # VolumeSeparatorChar
               THEN UNCHANGED <<fileName, pc>>
               ELSE /\ fileName' = Substring(fpath, num' + 1, Len(fpath) - num' - 1)
                    /\ pc' = "done"
    /\ UNCHANGED <<fpath0, fpath, NotName>>

FileNameInit ==
    /\ pc = "GetFileName"
    /\ fpath0 \in SeqsUpTo(NameSamples, MaxNameLength)
                     \cup {NameExampleWindows, NameExamplePlain}
    /\ fpath = fpath0
    /\ num = 0
    /\ chr = 0
    /\ fileName = <<>>
    /\ trapped = FALSE
    /\ ToStringIdle /\ ConvertIdle /\ FindIdle /\ ParseIdle /\ PathIdle

FileNameNext ==
    \/ FileNameBegin
    \/ FileNameScan

SpecFileName == FileNameInit /\ [][FileNameNext]_vars

\* the positions of '/', '\' and ':' in a path
MarkPositions(s) == {k \in 1..Len(s) : s[k] \in {47, 92, 58}}

\* C10: GetFileName returns what follows the last '/', '\' or ':' of the
\* path (nothing when that is its last character) and the whole path when it
\* has none of the three; the path itself is left as it was.
C10_SuffixAfterLastMark ==
    pc = "done" =>
        /\ fpath = fpath0
        /\ MarkPositions(fpath0) = {} => fileName = fpath0
        /\ \A k \in MarkPositions(fpath0) :
               (\A j \in MarkPositions(fpath0) : j <= k)
                   => fileName = SubSeq(fpath0, k + 1, Len(fpath0))
        /\ fpath0 = NameExampleWindows => fileName = <<98, 46, 116, 120, 116>>
        /\ fpath0 = NameExamplePlain => fileName = NameExamplePlain

\* a path whose last mark is ':' with a '/' or '\' before it and a name after
C10_Witness ==
    /\ pc = "done"
    /\ \E k \in MarkPositions(fpath0) :
          /\ fpath0[k] = 58 /\ k > 1 /\ k < Len(fpath0)
          /\ fpath0[k - 1] \in {47, 92}
          /\ \A j \in MarkPositions(fpath0) : j <= k
    /\ fileName # <<>>

=============================================================================
